---- MODULE Spec2Model ----
(***************************************************************************)
(* The model-building notebook (notebooks/2b_model_building.ipynb) as a    *)
(* state machine.  A run executes the notebook's code cells in order       *)
(* (Run All, or a Databricks job); an exception in a cell ends the run.    *)
(* Library calls (VectorAssembler, VectorIndexer, StringIndexer, Pipeline, *)
(* MLWriter) are modelled by what pyspark does for them.                   *)
(***************************************************************************)
EXTENDS Integers, Sequences, FiniteSets, TLC

(***************************************************************************)
(* Bounds of the model.                                                    *)
(***************************************************************************)
MaxDay == 9
MaxRows == 2
MaxLabel == 1
MaxVal == 1
MaxCols == 5
NumRuns == 2

(***************************************************************************)
(* Constants of the notebook.                                              *)
(***************************************************************************)
CensorDays == 7
maxCategories == 10
maxDepth == 15
maxBins == 32
minInstancesPerNode == 1
numTrees == 200

Runs == 1..NumRuns
Days == 1..MaxDay
Labels == 0..MaxLabel
Vals == 0..MaxVal

\* An unassigned Python name, and an assigned one.
None == <<>>
Some(v) == <<v>>
Range(s) == {s[i] : i \in DOMAIN s}

(***************************************************************************)
(* Cell 1: the names the first cell assigns.                               *)
(***************************************************************************)
training_table == "training_data"
default_model_type == "RandomForest"

\* The values the "model" widget is given.
Tokens == {"DecisionTree", "RandomForest", "GBTClassifier", "", "decisiontree", "XGBoost"}

(***************************************************************************)
(* Cell 4: the feature column list.                                        *)
(***************************************************************************)
label_var == <<"label_e">>
key_cols == <<"machineID", "dt_truncated">>
remove_names == label_var \o key_cols \o <<"failure", "model_encoded", "model">>

\* [x for x in columns if x not in set(remove_names)]
DropLabelAndKeysOnly(columns) ==
    SelectSeq(columns, LAMBDA x : x \notin Range(label_var \o key_cols))
InputFeatures(columns) ==
    SelectSeq(columns, LAMBDA x : x \notin Range(remove_names))

(***************************************************************************)
(* Tables.  A table is [columns, rows]; a row is a record over the columns.*)
(***************************************************************************)
AllColumns ==
    <<"machineID", "dt_truncated", "volt", "rotate", "failure",
      "model_encoded", "model", "label_e">>

Project(row, columns) == [c \in Range(columns) |-> row[c]]

BaseRow(d, l, f, v) ==
    [machineID |-> 1, dt_truncated |-> d, volt |-> v, rotate |-> MaxVal - v,
     failure |-> f, model_encoded |-> 0, model |-> "model1", label_e |-> l]

Table(columns, rows) ==
    [columns |-> columns, rows |-> {Project(r, columns) : r \in rows}]

RECURSIVE SeqOfIndices(_)
SeqOfIndices(S) ==
    IF S = {} THEN <<>>
    ELSE LET i == CHOOSE j \in S : \A k \in S : j <= k
         IN <<AllColumns[i]>> \o SeqOfIndices(S \ {i})

\* Every schema that keeps the columns of AllColumns in their order.
Schemas == {SeqOfIndices(S) : S \in SUBSET DOMAIN AllColumns}

OrderColumns == {"machineID", "dt_truncated", "label_e", "volt", "rotate", "failure"}

\* Every list of at most MaxCols distinct columns of OrderColumns, in every order.
ColumnLists ==
    UNION {{s \in [1..n -> OrderColumns] :
              \A i, j \in 1..n : i # j => s[i] # s[j]} : n \in 0..MaxCols}

SampleRows == {{}, {BaseRow(1, 0, 0, 0)}, {BaseRow(1, 0, 0, 0), BaseRow(2, 1, 0, 1)}}

SchemaTables == {Table(c, rows) : c \in Schemas, rows \in SampleRows}

OrderTables == {Table(c, rows) : c \in ColumnLists, rows \in SampleRows}

FullSchema == <<"machineID", "dt_truncated", "volt", "failure", "label_e">>

\* Tables of n rows on days 1..n with every labelling and every feature value.
LabelTables ==
    UNION {{Table(FullSchema, {BaseRow(d, lv[d][1], 0, lv[d][2]) : d \in 1..n}) :
              lv \in [1..n -> Labels \X Vals]} : n \in 0..MaxRows}

\* Tables of at most MaxRows rows on distinct days, each labelled with no
\* failure (0) or failure 1, and with failure 1 on record or not.
SplitTables ==
    UNION {{Table(FullSchema, {BaseRow(d, lf[d][1], lf[d][2], 0) : d \in D}) :
              lf \in [D -> {0, 1} \X {0, 1}]} :
           D \in {E \in SUBSET Days : Cardinality(E) <= MaxRows}}

GoodTable == Table(FullSchema, {BaseRow(1, 0, 0, 0), BaseRow(2, 1, 0, 1)})
SmallTable == Table(FullSchema, {BaseRow(1, 0, 0, 0), BaseRow(2, 0, 0, 1), BaseRow(3, 1, 1, 1)})
EmptyTable == Table(FullSchema, {})
NoFeatureTable ==
    Table(<<"machineID", "dt_truncated", "failure", "label_e">>, {BaseRow(1, 0, 0, 0)})

(***************************************************************************)
(* Cell 6: assemble the features, fit the two indexers.                    *)
(***************************************************************************)
selected_cols == <<"machineID", "dt_truncated", "label_e">>

\* select('machineID','dt_truncated','label_e','features') resolves its columns.
SelectResolves(df) == Range(selected_cols) \subseteq Range(df.columns)

\* va.transform(train_data).select(...): one vector per row, in column order.
Assemble(df, input_features) ==
    [columns |-> selected_cols \o <<"features">>,
     rows |-> {[machineID |-> r.machineID, dt_truncated |-> r.dt_truncated,
                label_e |-> r.label_e,
                features |-> [i \in 1..Len(input_features) |-> r[input_features[i]]]] :
               r \in df.rows}]

\* VectorIndexer.fit needs a first row to read the vector size from.
VectorIndexerFits(df) == df.rows # {}

NumFeatures(df) == Len((CHOOSE r \in df.rows : TRUE).features)

DistinctValues(rows, i) == {r.features[i] : r \in rows}

\* A category map: the distinct values in ascending order, numbered from 0.
CategoryMap(S) == [v \in S |-> Cardinality({w \in S : w < v})]

\* VectorIndexer(maxCategories=10).fit(df): a feature with at most
\* maxCategories distinct values is categorical, any other is continuous.
VectorIndexerFit(df) ==
    [stage |-> "VectorIndexerModel",
     numFeatures |-> NumFeatures(df),
     categoryMaps |->
        [i \in {j \in 1..NumFeatures(df) :
                   Cardinality(DistinctValues(df.rows, j)) <= maxCategories} |->
            CategoryMap(DistinctValues(df.rows, i))]]

LabelCount(rows, l) == Cardinality({r \in rows : r.label_e = l})

LabelOrders(rows) ==
    LET L == {r.label_e : r \in rows}
        n == Cardinality(L)
    IN {s \in [1..n -> L] :
          /\ \A i, j \in 1..n : i # j => s[i] # s[j]
          /\ \A i, j \in 1..n : i < j => LabelCount(rows, s[i]) >= LabelCount(rows, s[j])}

\* StringIndexer.fit(df): the distinct labels by descending frequency; the
\* order among equally frequent labels is left to the library.
StringIndexerFitOnFirstDay(df) ==
    {[stage |-> "StringIndexerModel", labels |-> s] :
        s \in LabelOrders({r \in df.rows : r.dt_truncated <= 1})}
StringIndexerFit(df) ==
    {[stage |-> "StringIndexerModel", labels |-> s] : s \in LabelOrders(df.rows)}

(***************************************************************************)
(* Cell 8: the classifier, the pipeline and its fit.                       *)
(***************************************************************************)
DecisionTreeClassifier ==
    [stage |-> "DecisionTreeClassifier",
     labelCol |-> "indexedLabel", featuresCol |-> "indexedFeatures",
     maxDepth |-> maxDepth, maxBins |-> maxBins,
     minInstancesPerNode |-> minInstancesPerNode, minInfoGain |-> "0.0",
     impurity |-> "gini"]

RandomForestClassifier ==
    [stage |-> "RandomForestClassifier",
     labelCol |-> "indexedLabel", featuresCol |-> "indexedFeatures",
     maxDepth |-> maxDepth, maxBins |-> maxBins,
     minInstancesPerNode |-> minInstancesPerNode, minInfoGain |-> "0.0",
     impurity |-> "gini",
     numTrees |-> numTrees, featureSubsetStrategy |-> "sqrt",
     subsamplingRate |-> "0.632"]

\* if model_type == 'DecisionTree': ... else: ...
SelectByPrefix(model_type) ==
    IF model_type \in {"DecisionTree", "decisiontree", "GBTClassifier"}
    THEN DecisionTreeClassifier
    ELSE RandomForestClassifier
SelectModel(model_type) ==
    IF model_type = "DecisionTree" THEN DecisionTreeClassifier
    ELSE RandomForestClassifier

IsEstimator(stage) == stage.stage \in {"DecisionTreeClassifier", "RandomForestClassifier"}

IndexOf(s, x) == CHOOSE i \in DOMAIN s : s[i] = x

\* A fitted indexer's transform adds its output column.
TransformRow(stage, r) ==
    IF stage.stage = "StringIndexerModel"
    THEN [c \in DOMAIN r \cup {"indexedLabel"} |->
            IF c = "indexedLabel" THEN IndexOf(stage.labels, r.label_e) - 1 ELSE r[c]]
    ELSE [c \in DOMAIN r \cup {"indexedFeatures"} |->
            IF c = "indexedFeatures"
            THEN [i \in DOMAIN r.features |->
                    IF i \in DOMAIN stage.categoryMaps
                    THEN stage.categoryMaps[i][r.features[i]]
                    ELSE r.features[i]]
            ELSE r[c]]

Transform(stage, rows) == {TransformRow(stage, r) : r \in rows}

\* The tree learners refuse an empty feature vector.
ClassifierFits(rows) == \A r \in rows : Len(r.features) > 0

\* classifier.fit(rows): the fitted model, kept as the configuration and the
\* rows it was trained on.
ClassifierFit(stage, rows) ==
    [stage |-> stage.stage \o "Model", params |-> stage, trainedOn |-> rows]

\* Pipeline.fit: a stage that is already a fitted model is kept as it is and
\* transforms the data; an estimator is fitted on the data transformed so far.
RECURSIVE FitStages(_, _)
FitStages(stages, rows) ==
    IF stages = <<>> THEN <<>>
    ELSE IF IsEstimator(Head(stages))
         THEN <<ClassifierFit(Head(stages), rows)>> \o FitStages(Tail(stages), rows)
         ELSE <<Head(stages)>> \o FitStages(Tail(stages), Transform(Head(stages), rows))

\* A fitted StringIndexerModel raises on a label it has no index for.
LabelsIndexed(stages, df) ==
    \A i \in DOMAIN stages :
        stages[i].stage = "StringIndexerModel" =>
            \A r \in df.rows : r.label_e \in Range(stages[i].labels)

PipelineFits(stages, df) == LabelsIndexed(stages, df) /\ ClassifierFits(df.rows)

PipelineFit(stages, df) == [stage |-> "PipelineModel", stages |-> FitStages(stages, df.rows)]

(***************************************************************************)
(* Cell 10: the saved model.  The store is the set of files; a pipeline is *)
(* written as a metadata file and one file per stage.                      *)
(***************************************************************************)
\* "dbfs:/storage/models/" + model_type + ".pqt"
ModelPath(model_type) == "dbfs:/storage/models/" \o model_type \o ".pqt"

Parts == <<"metadata", "stages/0", "stages/1", "stages/2">>

PartContent(pipeline, i) ==
    IF i = 1
    THEN [stage |-> "PipelineModel",
          stages |-> [j \in DOMAIN pipeline.stages |-> pipeline.stages[j].stage]]
    ELSE pipeline.stages[i - 1]

Exists(files, path) == \E f \in files : f.path = path

\* fs.delete(path, recursive)
Delete(files, path) == {f \in files : f.path # path}

WritePart(files, path, pipeline, i) ==
    {f \in files : ~(f.path = path /\ f.part = Parts[i])}
        \cup {[path |-> path, part |-> Parts[i], content |-> PartContent(pipeline, i)]}

HasPart(files, path, i) == \E f \in files : f.path = path /\ f.part = Parts[i]

FilePart(files, path, i) == (CHOOSE f \in files : f.path = path /\ f.part = Parts[i]).content

\* What a load of the path finds.
Load(files, path) ==
    IF ~Exists(files, path) THEN [status |-> "absent", pipeline |-> None]
    ELSE IF \E i \in DOMAIN Parts : ~HasPart(files, path, i)
         THEN [status |-> "partial", pipeline |-> None]
         ELSE [status |-> "complete",
               pipeline |-> Some([stage |-> "PipelineModel",
                                  stages |-> [j \in 1..(Len(Parts) - 1) |->
                                                FilePart(files, path, j + 1)]])]

(***************************************************************************)
(* The state: the Python names of each run, and the file store they share. *)
(***************************************************************************)
VARIABLES
    pc,              \* the cell each run executes next
    failed_in,       \* the cell whose exception ended the run
    widgets,         \* dbutils.widgets
    train_data, input_features, featureIndexer, labelIndexer, training,
    model_type, model, model_pipeline,
    save_part,       \* the part of the pipeline the writer writes next
    store,           \* the files under dbfs:/storage/models/
    store_at_start,  \* history: the store when the run began
    source_table,    \* history: the table cell 3 read
    seen             \* what the last load by a reader found

names == <<widgets, train_data, input_features, featureIndexer, labelIndexer,
           training, model_type, model, model_pipeline>>
vars == <<pc, failed_in, names, save_part, store, store_at_start, source_table, seen>>

Init ==
    /\ pc = [r \in Runs |-> "imports"]
    /\ failed_in = [r \in Runs |-> "none"]
    /\ widgets = [r \in Runs |-> None]
    /\ train_data = [r \in Runs |-> None]
    /\ input_features = [r \in Runs |-> None]
    /\ featureIndexer = [r \in Runs |-> None]
    /\ labelIndexer = [r \in Runs |-> None]
    /\ training = [r \in Runs |-> None]
    /\ model_type = [r \in Runs |-> None]
    /\ model = [r \in Runs |-> None]
    /\ model_pipeline = [r \in Runs |-> None]
    /\ save_part = [r \in Runs |-> 0]
    /\ store = {}
    /\ store_at_start = [r \in Runs |-> {}]
    /\ source_table = [r \in Runs |-> None]
    /\ seen = [path |-> "", status |-> "none", pipeline |-> None, held |-> FALSE]

Goto(r, cell) == pc' = [pc EXCEPT ![r] = cell]

Raise(r) ==
    /\ pc' = [pc EXCEPT ![r] = "failed"]
    /\ failed_in' = [failed_in EXCEPT ![r] = pc[r]]

\* Cell 1: imports, training_table = 'training_data', model_type = 'RandomForest'.
Imports(r) ==
    /\ pc[r] = "imports"
    /\ model_type' = [model_type EXCEPT ![r] = Some(default_model_type)]
    /\ store_at_start' = [store_at_start EXCEPT ![r] = store]
    /\ Goto(r, "widgets")
    /\ UNCHANGED <<failed_in, widgets, train_data, input_features, featureIndexer,
                   labelIndexer, training, model, model_pipeline, save_part,
                   store, source_table, seen>>

\* Cell 2: the widgets; the run's parameter gives the "model" widget its value,
\* one of tokens.
Widgets(r, tokens) ==
    /\ pc[r] = "widgets"
    /\ \E token \in tokens :
          widgets' = [widgets EXCEPT
                        ![r] = Some([training_table |-> training_table, model |-> token])]
    /\ Goto(r, "load")
    /\ UNCHANGED <<failed_in, train_data, input_features, featureIndexer,
                   labelIndexer, training, model_type, model, model_pipeline,
                   save_part, store, store_at_start, source_table, seen>>

OptionalTables(tables) == {Some(t) : t \in tables} \cup {None}

\* Cell 3: train_data = spark.table(...), the named table being one of tables,
\* or none of them: then spark.table raises.
LoadTable(r, tables) ==
    /\ pc[r] = "load"
    /\ \E table \in OptionalTables(tables) :
          IF table = None
          THEN Raise(r) /\ UNCHANGED <<train_data, source_table>>
          ELSE /\ train_data' = [train_data EXCEPT ![r] = table]
               /\ source_table' = [source_table EXCEPT ![r] = table]
               /\ Goto(r, "features")
               /\ UNCHANGED failed_in
    /\ UNCHANGED <<widgets, input_features, featureIndexer, labelIndexer, training,
                   model_type, model, model_pipeline, save_part, store,
                   store_at_start, seen>>

\* Cell 4: input_features = the columns without remove_names.
FeatureList(r) ==
    /\ pc[r] = "features"
    /\ input_features' =
          [input_features EXCEPT ![r] = Some(InputFeatures(train_data[r][1].columns))]
    /\ Goto(r, "assemble")
    /\ UNCHANGED <<failed_in, widgets, train_data, featureIndexer, labelIndexer,
                   training, model_type, model, model_pipeline, save_part, store,
                   store_at_start, source_table, seen>>

\* training = train_data: what cell 6 hands to the model fit.
TrainingSet(df) == df

\* Cell 6: assemble and select, fit the feature indexer, fit the label indexer,
\* training = train_data.  The first statement that raises ends the cell.
AssembleAndIndex(r) ==
    /\ pc[r] = "assemble"
    /\ LET df == train_data[r][1]
           assembled == Assemble(df, input_features[r][1])
       IN IF ~SelectResolves(df)
          THEN /\ Raise(r)
               /\ UNCHANGED <<train_data, featureIndexer, labelIndexer, training>>
          ELSE /\ train_data' = [train_data EXCEPT ![r] = Some(assembled)]
               /\ IF ~VectorIndexerFits(assembled)
                  THEN /\ Raise(r)
                       /\ UNCHANGED <<featureIndexer, labelIndexer, training>>
                  ELSE /\ featureIndexer' =
                             [featureIndexer EXCEPT ![r] = Some(VectorIndexerFit(assembled))]
                       /\ \E li \in StringIndexerFit(assembled) :
                             labelIndexer' = [labelIndexer EXCEPT ![r] = Some(li)]
                       /\ training' = [training EXCEPT ![r] = Some(TrainingSet(assembled))]
                       /\ Goto(r, "train")
                       /\ UNCHANGED failed_in
    /\ UNCHANGED <<widgets, input_features, model_type, model, model_pipeline,
                   save_part, store, store_at_start, source_table, seen>>

\* The stages cell 8 chains.
Stages(r, classifier) == <<labelIndexer[r][1], featureIndexer[r][1], classifier>>

\* Cell 8: read the widget, choose the classifier, fit the pipeline.
TrainModel(r) ==
    /\ pc[r] = "train"
    /\ LET token == widgets[r][1].model
           classifier == SelectModel(token)
           stages == Stages(r, classifier)
       IN /\ model_type' = [model_type EXCEPT ![r] = Some(token)]
          /\ model' = [model EXCEPT ![r] = Some(classifier)]
          /\ IF PipelineFits(stages, training[r][1])
             THEN /\ model_pipeline' =
                        [model_pipeline EXCEPT
                           ![r] = Some(PipelineFit(stages, training[r][1]))]
                  /\ Goto(r, "save")
                  /\ UNCHANGED failed_in
             ELSE Raise(r) /\ UNCHANGED model_pipeline
    /\ UNCHANGED <<widgets, train_data, input_features, featureIndexer, labelIndexer,
                   training, save_part, store, store_at_start, source_table, seen>>

\* The path cell 10 saves to: model_type is the widget value cell 8 read.
SavePathOfDefault(r) == ModelPath(default_model_type)
SavePath(r) == ModelPath(model_type[r][1])

\* Cell 10 follows cell 8: it runs once the pipeline fit has returned.
ReadyToSaveUnfitted(r) == pc[r] \in {"train", "save"}
ReadyToSave(r) == pc[r] = "save"

\* Cell 10, write().overwrite().save(path), first step: an existing path is
\* deleted.  ok is FALSE when the storage refuses the operation.
SaveOverwrite(r, ok) ==
    /\ ReadyToSave(r)
    /\ IF ok
       THEN /\ store' = Delete(store, SavePath(r))
            /\ save_part' = [save_part EXCEPT ![r] = 1]
            /\ Goto(r, "write")
            /\ UNCHANGED failed_in
       ELSE Raise(r) /\ UNCHANGED <<store, save_part>>
    /\ UNCHANGED <<names, store_at_start, source_table, seen>>

\* Cell 10, the writer's next step: the metadata, then each stage in turn.
SaveWrite(r, ok) ==
    /\ pc[r] = "write"
    /\ IF ok
       THEN /\ store' = WritePart(store, SavePath(r), model_pipeline[r][1], save_part[r])
            /\ IF save_part[r] = Len(Parts)
               THEN /\ Goto(r, "done")
                    /\ UNCHANGED save_part
               ELSE /\ save_part' = [save_part EXCEPT ![r] = @ + 1]
                    /\ UNCHANGED pc
            /\ UNCHANGED failed_in
       ELSE Raise(r) /\ UNCHANGED <<store, save_part>>
    /\ UNCHANGED <<names, store_at_start, source_table, seen>>

\* The notebook is run again as a new job run, in a fresh session: no Python
\* name is bound when cell 1 starts.
Rerun(r) ==
    /\ pc[r] \in {"done", "failed"}
    /\ pc' = [pc EXCEPT ![r] = "imports"]
    /\ failed_in' = [failed_in EXCEPT ![r] = "none"]
    /\ widgets' = [widgets EXCEPT ![r] = None]
    /\ train_data' = [train_data EXCEPT ![r] = None]
    /\ input_features' = [input_features EXCEPT ![r] = None]
    /\ featureIndexer' = [featureIndexer EXCEPT ![r] = None]
    /\ labelIndexer' = [labelIndexer EXCEPT ![r] = None]
    /\ training' = [training EXCEPT ![r] = None]
    /\ model_type' = [model_type EXCEPT ![r] = None]
    /\ model' = [model EXCEPT ![r] = None]
    /\ model_pipeline' = [model_pipeline EXCEPT ![r] = None]
    /\ save_part' = [save_part EXCEPT ![r] = 0]
    /\ source_table' = [source_table EXCEPT ![r] = None]
    /\ UNCHANGED <<store, store_at_start, seen>>

\* The cells are executed again in the same session (Run All): the run starts
\* over at cell 1 and every Python name keeps the object the previous
\* execution bound it to, until a cell binds it again.
RunAllAgain(r) ==
    /\ pc[r] \in {"done", "failed"}
    /\ pc' = [pc EXCEPT ![r] = "imports"]
    /\ failed_in' = [failed_in EXCEPT ![r] = "none"]
    /\ save_part' = [save_part EXCEPT ![r] = 0]
    /\ UNCHANGED <<names, store, store_at_start, source_table, seen>>

\* A reader (the testing or scoring notebook) loads the model at a path.
Read(path) ==
    /\ seen' = [path |-> path, status |-> Load(store, path).status,
                pipeline |-> Load(store, path).pipeline,
                held |-> \E r \in Runs :
                            /\ pc[r] # "imports"
                            /\ Load(store_at_start[r], path).status = "complete"]
    /\ UNCHANGED <<pc, failed_in, names, save_part, store, store_at_start, source_table>>

\* One step of run r, with the widget values and the tables it may be given.
Step(r, tokens, tables) ==
    \/ Imports(r)
    \/ Widgets(r, tokens)
    \/ LoadTable(r, tables)
    \/ FeatureList(r)
    \/ AssembleAndIndex(r)
    \/ TrainModel(r)
    \/ \E ok \in BOOLEAN : SaveOverwrite(r, ok)
    \/ \E ok \in BOOLEAN : SaveWrite(r, ok)

\* One run, every widget value, every schema and every labelling.
Next == Step(1, Tokens, SchemaTables \cup LabelTables)
Spec == Init /\ [][Next]_vars

\* One run with the default widget values over tables spread over the days.
NextSplit == Step(1, {default_model_type}, SplitTables)
SpecSplit == Init /\ [][NextSplit]_vars

\* One run with the default widget values over every schema and column order.
NextOrder == Step(1, {default_model_type}, OrderTables \cup SchemaTables)
SpecOrder == Init /\ [][NextOrder]_vars

\* The notebook run again and again, one run at a time, in a fresh session or
\* in the session of the run before.
RerunTokens == {"DecisionTree", "RandomForest", "GBTClassifier", ""}
NextRerun ==
    \/ Step(1, RerunTokens, {SmallTable, EmptyTable, NoFeatureTable})
    \/ Rerun(1)
    \/ RunAllAgain(1)
SpecRerun == Init /\ [][NextRerun]_vars

\* Uncoordinated runs saving while a reader loads.
ConcTokens == {"DecisionTree", "RandomForest"}
NextConc ==
    \/ \E r \in Runs : Step(r, ConcTokens, {GoodTable})
    \/ \E token \in ConcTokens : Read(ModelPath(token))
SpecConc == Init /\ [][NextConc]_vars

(***************************************************************************)
(* The claims.                                                             *)
(***************************************************************************)
Fitted(r) == model_pipeline[r] # None

\* The rows the classifier of run r was fitted on.
FitRows(r) == model_pipeline[r][1].stages[3].trainedOn

FitDays(r) == {row.dt_truncated : row \in FitRows(r)}

InCensoringWindow(row, T) ==
    T - CensorDays <= row.dt_truncated /\ row.dt_truncated <= T

\* The failure a row is labelled with is on record on or before day T.
KnownBy(table, row, T) ==
    \E q \in table.rows :
        /\ q.machineID = row.machineID
        /\ q.failure = row.label_e
        /\ row.dt_truncated <= q.dt_truncated
        /\ q.dt_truncated <= T

\* C1: for every cutoff T, no row the pipeline is fitted on that lies in the
\* 7-day window before T carries a failure label whose failure is on record
\* only after T.
CensoringInvariant ==
    \A r \in Runs :
        Fitted(r) =>
            \A T \in Days : \A row \in FitRows(r) :
                (InCensoringWindow(row, T) /\ row.label_e # 0)
                    => KnownBy(source_table[r][1], row, T)

\* C2: for every cutoff T, the rows the pipeline is fitted on are exactly the
\* rows of the table dated T or earlier.
TimeAwareSplit ==
    \A r \in Runs :
        Fitted(r) =>
            \A T \in Days :
                FitDays(r) =
                    {q.dt_truncated : q \in {x \in source_table[r][1].rows :
                                               x.dt_truncated <= T}}

FilesAt(files, path) == {f \in files : f.path = path}

SaveFailed(r) == pc[r] = "failed" /\ failed_in[r] \in {"save", "write"}

\* C3: when the save of a run fails, the files under its path are the files
\* that were there before the run: the earlier artifact intact, nothing partial.
SaveFailureAtomic ==
    \A r \in Runs :
        SaveFailed(r) =>
            FilesAt(store, SavePath(r)) = FilesAt(store_at_start[r], SavePath(r))

\* C4: a reader that loads a path which held a complete artifact when some run
\* began finds a complete artifact.
ReaderIsolation == seen.held => seen.status = "complete"

PastSelection(r) ==
    \/ pc[r] \in {"save", "write", "done"}
    \/ pc[r] = "failed" /\ failed_in[r] \in {"train", "save", "write"}

\* C5: whatever the widget value, cell 8 assigns a classifier: the decision
\* tree for 'DecisionTree', the random forest of 200 trees for every other
\* value, the default 'RandomForest' among them.
ModelSelectorFallback ==
    /\ default_model_type # "DecisionTree"
    /\ \A r \in Runs :
          PastSelection(r) =>
              /\ model[r] # None
              /\ model_type[r] = Some(widgets[r][1].model)
              /\ widgets[r][1].model = "DecisionTree" =>
                    /\ model[r][1].stage = "DecisionTreeClassifier"
                    /\ "numTrees" \notin DOMAIN model[r][1]
              /\ widgets[r][1].model # "DecisionTree" =>
                    /\ model[r][1].stage = "RandomForestClassifier"
                    /\ model[r][1].numTrees = 200
                    /\ model[r][1].featureSubsetStrategy = "sqrt"
              /\ model[r][1].maxDepth = 15 /\ model[r][1].maxBins = 32
              /\ model[r][1].impurity = "gini"

ModelSelectorFallbackWitness ==
    /\ pc[1] = "done"
    /\ widgets[1][1].model = "GBTClassifier"
    /\ model[1][1].stage = "RandomForestClassifier"

IsFrequencyOrder(labels, rows) ==
    /\ \A i, j \in DOMAIN labels : i # j => labels[i] # labels[j]
    /\ \A i, j \in DOMAIN labels :
          i < j => LabelCount(rows, labels[i]) >= LabelCount(rows, labels[j])

\* C6: the label index and the feature index are those of the whole table
\* read in cell 3; the fitted pipeline holds them unchanged, and so does the
\* saved one.
IndexersFromFullPopulation ==
    \A r \in Runs :
        /\ labelIndexer[r] # None =>
              LET src == source_table[r][1].rows
                  labels == labelIndexer[r][1].labels
                  fi == featureIndexer[r][1]
                  f == input_features[r][1]
              IN /\ Range(labels) = {q.label_e : q \in src}
                 /\ IsFrequencyOrder(labels, src)
                 /\ fi.numFeatures = Len(f)
                 /\ \A i \in 1..Len(f) :
                       LET values == {q[f[i]] : q \in src}
                       IN IF Cardinality(values) <= 10
                          THEN /\ i \in DOMAIN fi.categoryMaps
                               /\ DOMAIN fi.categoryMaps[i] = values
                          ELSE i \notin DOMAIN fi.categoryMaps
        /\ Fitted(r) =>
              /\ model_pipeline[r][1].stages[1] = labelIndexer[r][1]
              /\ model_pipeline[r][1].stages[2] = featureIndexer[r][1]
        /\ pc[r] = "done" =>
              Load(store, SavePath(r)).pipeline = model_pipeline[r]

IndexersFromFullPopulationWitness ==
    /\ pc[1] = "done"
    /\ Cardinality(source_table[1][1].rows) = 2
    /\ Len(model_pipeline[1][1].stages[1].labels) = 2
    /\ Cardinality(DOMAIN model_pipeline[1][1].stages[2].categoryMaps[1]) = 2
    /\ Load(store, SavePath(1)).status = "complete"

Excluded ==
    {"label_e", "machineID", "dt_truncated", "failure", "model_encoded", "model"}

SchemaError(r) ==
    /\ input_features[r] # None
    /\ \/ \E c \in {"machineID", "dt_truncated", "label_e"} :
             c \notin Range(source_table[r][1].columns)
       \/ Range(source_table[r][1].columns) \ Excluded = {}

\* C7: a run whose table lacks a required column, or has no feature column
\* left, fails with no indexer fitted, no pipeline fitted and nothing written.
SchemaErrorsFailFast ==
    \A r \in Runs :
        SchemaError(r) =>
            /\ pc[r] \in {"assemble", "failed"}
            /\ featureIndexer[r] = None
            /\ labelIndexer[r] = None
            /\ model_pipeline[r] = None
            /\ store = store_at_start[r]

\* C8: the store differs from what it was when the run began only once the
\* pipeline fit has returned and the writer is at work; a run that failed in
\* an earlier cell has left every file as it was.  The pipeline the writer
\* holds is the one this execution fitted, not one left bound by an earlier
\* execution in the same session.
StoreUntouchedUntilFitted ==
    \A r \in Runs :
        /\ pc[r] \in {"write", "done"} => model_pipeline[r] # None
        /\ pc[r] \in {"write", "done"} =>
              /\ model_pipeline[r][1].stages[1] = labelIndexer[r][1]
              /\ model_pipeline[r][1].stages[2] = featureIndexer[r][1]
              /\ model_pipeline[r][1].stages[3].params = SelectModel(widgets[r][1].model)
              /\ model_pipeline[r][1].stages[3].trainedOn =
                    Transform(featureIndexer[r][1],
                              Transform(labelIndexer[r][1], training[r][1].rows))
        /\ (pc[r] # "imports" /\ store # store_at_start[r]) =>
              /\ model_pipeline[r] # None
              /\ \/ pc[r] \in {"write", "done"}
                 \/ pc[r] = "failed" /\ failed_in[r] = "write"

StoreUntouchedUntilFittedWitness ==
    /\ pc[1] = "failed"
    /\ failed_in[1] = "train"
    /\ store = store_at_start[1]
    /\ \E f \in store : Load(store, f.path).status = "complete"

\* C9: the feature list is the table's columns without the six excluded
\* names, in the table's column order, and each assembled vector holds the
\* row's values of those columns in that order.
FeatureListIsOrderedSelection ==
    \A r \in Runs :
        input_features[r] # None =>
            LET cols == source_table[r][1].columns
                f == input_features[r][1]
            IN /\ Range(f) = Range(cols) \ Excluded
               /\ Len(f) = Cardinality(Range(f))
               /\ \A i, j \in DOMAIN f :
                     i < j => IndexOf(cols, f[i]) < IndexOf(cols, f[j])
               /\ training[r] # None =>
                     \A row \in training[r][1].rows :
                        \E q \in source_table[r][1].rows :
                            /\ q.dt_truncated = row.dt_truncated
                            /\ row.features = [i \in DOMAIN f |-> q[f[i]]]

FeatureListIsOrderedSelectionWitness ==
    /\ training[1] # None
    /\ source_table[1][1].columns =
          <<"rotate", "label_e", "dt_truncated", "volt", "machineID">>
    /\ input_features[1][1] = <<"rotate", "volt">>
    /\ Cardinality(training[1][1].rows) = 2

ClassifierAt(path) == Load(store, path).pipeline[1].stages[3].stage

\* C10: a run saves to 'dbfs:/storage/models/' + token + '.pqt' for the token
\* that chose its classifier, distinct tokens have distinct paths, and a
\* complete artifact holds a decision tree under the 'DecisionTree' path and
\* a random forest under every other path.
ArtifactKeyMatchesClassifier ==
    /\ \A r \in Runs :
          pc[r] \in {"save", "write", "done"} =>
              /\ SavePath(r) = "dbfs:/storage/models/" \o widgets[r][1].model \o ".pqt"
              /\ model[r][1].stage =
                    (IF widgets[r][1].model = "DecisionTree"
                     THEN "DecisionTreeClassifier" ELSE "RandomForestClassifier")
    /\ \A t1, t2 \in Tokens : t1 # t2 => ModelPath(t1) # ModelPath(t2)
    /\ \A path \in {f.path : f \in store} :
          Load(store, path).status = "complete" =>
              ClassifierAt(path) =
                 (IF path = "dbfs:/storage/models/DecisionTree.pqt"
                  THEN "DecisionTreeClassifierModel"
                  ELSE "RandomForestClassifierModel")

ArtifactKeyMatchesClassifierWitness ==
    /\ Load(store, "dbfs:/storage/models/DecisionTree.pqt").status = "complete"
    /\ Load(store, "dbfs:/storage/models/.pqt").status = "complete"
    /\ Load(store, "dbfs:/storage/models/GBTClassifier.pqt").status = "complete"
    /\ ClassifierAt("dbfs:/storage/models/GBTClassifier.pqt") = "RandomForestClassifierModel"

====
